---------------------------- MODULE Spec2Model ----------------------------
(***************************************************************************)
(* A model of src/src/engine.rs: GameLoop::start with its frame closure,   *)
(* the key-event channel (prepare_input / process_input / KeyState) and    *)
(* load_image.                                                             *)
(*                                                                         *)
(* Time.  The f32 constant FRAME_SIZE = 1.0 / 60.0 * 1000.0 is exactly     *)
(* 8738134 * 2^-19 ms.  The model counts f32 values in units of 2^-19 ms   *)
(* and timestamps (f64) in steps of half a FRAME_SIZE, which f64 holds     *)
(* exactly.  An f32 value is kept as its bit pattern, e * 2^24 + m for the *)
(* value m * 2^e units (m < 2^24, and m >= 2^23 when e > 0), negated for a *)
(* negative value: the pattern of a value below 2^24 units is the value,   *)
(* and patterns compare as the values do.  The f32 operations round to the *)
(* nearest value, ties to the even significand, as the wasm target does.   *)
(*                                                                         *)
(* Scheduling.  The host runs one callback at a time.  The model lets the  *)
(* key handlers run between any two statements of start and of the frame   *)
(* closure, which covers the host's schedules and more.                    *)
(***************************************************************************)
EXTENDS Integers, Sequences, FiniteSets

\* ------------------------------------------------------------------ bounds
\* Largest timestamp the clock and the scheduler hand out.
MaxTime == 7
\* Largest clock value browser::now() returns in start.
MaxNow == 1
\* Largest gap between two consecutive frame timestamps.
MaxDelta == 6
\* Number of key events the handlers push in one run.
MaxEvents == 3
\* Number of load_image calls in flight.
NumLoads == 2
\* Number of turns of the catch-up loop the model follows in one closure call.
MaxUpdates == 4

\* --------------------------------------------------------------- constants
\* const FRAME_SIZE: f32 = 1.0 / 60.0 * 1000.0, in units of 2^-19 ms.
FRAME_SIZE == 8738134

\* One step of the clock and of the frame timestamps, in units of 2^-19 ms.
TimeStep == FRAME_SIZE \div 2

\* KeyboardEvent.code() values.
Keys == {"A", "B"}

VARIABLES
    \* GameLoop::start
    spc,                \* position of start
    handlers,           \* window.onkeydown / onkeyup hold the two closures
    receiver,           \* keyevent_receiver is alive (not dropped)
    queue,              \* the unbounded channel's messages, oldest first
    game,               \* the Box<dyn Game> the loop holds
    last_frame,         \* game_loop.last_frame
    accumulated_delta,  \* game_loop.accumulated_delta
    pressed_keys,       \* keystate.pressed_keys (its key set)
    pending,            \* frame callbacks registered with the scheduler
    \* the frame closure
    fpc,                \* position of the running frame closure, or "idle"
    perf,               \* the closure's argument
    \* history of the running (or last) frame, and of the run
    acc_before,         \* accumulated_delta when the closure was entered
    last_before,        \* last_frame when the closure was entered
    updates,            \* game.update calls made by this closure call
    draws,              \* game.draw calls made by this closure call
    regs,               \* request_animation_frame calls that registered
    keys_at_drain,      \* pressed_keys when process_input returned
    seen,               \* the key states handed to game.update this frame
    n_pushed,           \* key events sent on the channel so far
    last_applied,       \* number of the last event process_input applied
    drained,            \* the events this frame's process_input applied
    ran,                \* which of frame / update / draw ever ran
    start_time,         \* the clock value start read (browser::now())
    total_updates,      \* game.update calls made since start
    inits,              \* calls of initialize made by start
    used,               \* the instances game.update / game.draw ran on
    rounded_frame,      \* an f32 operation of this closure call rounded
    rounded_run,        \* an f32 operation since start rounded
    \* load_image
    loads               \* per call of load_image: its locals and its image

loopState == <<spc, handlers, receiver, game, last_frame, accumulated_delta,
               pending, fpc, perf>>
inputState == <<queue, pressed_keys, n_pushed, last_applied>>
frameHist == <<acc_before, last_before, updates, draws, regs, keys_at_drain,
               seen, drained, ran>>
runHist == <<start_time, total_updates, inits, used>>
roundHist == <<rounded_frame, rounded_run>>

\* ------------------------------------------------------------ f32 arithmetic
Abs(x) == IF x < 0 THEN -x ELSE x

\* Exponent and significand of the pattern c >= 0, and its value in units
\* (for values below 2^31).
Exp(c) == c \div 2^24
Man(c) == c % 2^24
Units(c) == IF c < 0 THEN -(Man(-c) * 2^Exp(-c)) ELSE Man(c) * 2^Exp(c)

RECURSIVE Pack(_, _)
\* The pattern of m * 2^e, m < 2^24.
Pack(m, e) == IF m < 2^23 /\ e > 0 THEN Pack(2 * m, e - 1) ELSE e * 2^24 + m

RECURSIVE Drop(_)
\* Number of low bits s has beyond a 24-bit significand.
Drop(s) == IF s < 2^24 THEN 0 ELSE 1 + Drop(s \div 2)

\* The pattern nearest to s * 2^w, or to a value strictly between s * 2^w and
\* (s + 1) * 2^w when st (bits were shifted out below s); ties to even.
Round(s, st, w) ==
    LET k == Drop(s)
        q == s \div 2^k
        r == s % 2^k
        h == 2^(k - 1)
        up == r > h \/ (r = h /\ (st \/ q % 2 = 1))
        m == IF up THEN q + 1 ELSE q
    IN  IF k = 0 THEN Pack(s, w)
        ELSE IF m = 2^24 THEN Pack(2^23, w + k + 1)
        ELSE Pack(m, w + k)

\* TRUE when Round(s, st, w) is not the value it was given.
Rounds(s, st) == st \/ s % 2^Drop(s) # 0

\* The significands of a >= b >= 0 aligned at a common exponent w, with three
\* guard bits under a when b has to be shifted right; st tells whether bits
\* of b were shifted out.
Parts(a, b) ==
    LET d == Exp(a) - Exp(b)
        sh == d - 3
    IN  IF d <= 3
        THEN [x |-> Man(a) * 2^d, y |-> Man(b), st |-> FALSE, w |-> Exp(b)]
        ELSE IF sh >= 24
        THEN [x |-> Man(a) * 8, y |-> 0, st |-> Man(b) # 0, w |-> Exp(a) - 3]
        ELSE [x |-> Man(a) * 8, y |-> Man(b) \div 2^sh,
              st |-> Man(b) % 2^sh # 0, w |-> Exp(a) - 3]

\* Sum and difference of the magnitudes a >= b >= 0.
AddMag(a, b) == LET p == Parts(a, b) IN Round(p.x + p.y, p.st, p.w)
SubMag(a, b) ==
    LET p == Parts(a, b)
    IN  IF p.st THEN Round(p.x - p.y - 1, TRUE, p.w)
        ELSE Round(p.x - p.y, FALSE, p.w)

\* f32 `a + b` and `a - b`.
F32Add(a, b) ==
    LET x == Abs(a)
        y == Abs(b)
    IN  IF (a >= 0) = (b >= 0)
        THEN LET r == IF x >= y THEN AddMag(x, y) ELSE AddMag(y, x)
             IN  IF a >= 0 THEN r ELSE -r
        ELSE IF x >= y
        THEN LET r == SubMag(x, y) IN IF a >= 0 THEN r ELSE -r
        ELSE LET r == SubMag(y, x) IN IF b >= 0 THEN r ELSE -r
F32Sub(a, b) == F32Add(a, -b)

\* TRUE when f32 `a + b` (`a - b`) is not the exact sum (difference).
AddRounds(a, b) ==
    LET x == Abs(a)
        y == Abs(b)
        p == IF x >= y THEN Parts(x, y) ELSE Parts(y, x)
    IN  IF (a >= 0) = (b >= 0) THEN Rounds(p.x + p.y, p.st)
        ELSE IF p.st THEN TRUE ELSE Rounds(p.x - p.y, FALSE)
SubRounds(a, b) == AddRounds(a, -b)

RECURSIVE TwoPart(_)
\* The number of times 2 divides k > 0.
TwoPart(k) == IF k % 2 = 1 THEN 0 ELSE 1 + TwoPart(k \div 2)

\* `x as f32` for the f64 difference x of two timestamps k steps apart (a
\* number of steps below 2^8, or such a number times a power of two).
ToF32(k) ==
    LET a == Abs(k)
        j == IF a < 2^8 THEN 0 ELSE TwoPart(a)
        c == Round((a \div 2^j) * TimeStep, FALSE, j)
    IN  IF k < 0 THEN -c ELSE c

\* TRUE when the cast of k steps is not exact.
CastRounds(k) ==
    LET a == Abs(k)
        j == IF a < 2^8 THEN 0 ELSE TwoPart(a)
    IN  Rounds((a \div 2^j) * TimeStep, FALSE)

\* ------------------------------------------------------------------ KeyState
KeyState_new == {}

is_pressed(state, code) == code \in state

\* set_pressed that forgets the other keys.
set_pressed_only(state, code) == {code}

set_pressed(state, code) == state \cup {code}

\* set_released that removes nothing.
set_released_keeps(state, code) == state

set_released(state, code) == state \ {code}

\* One arm of process_input's match on a received event.
ApplyEvent(state, evt) ==
    IF evt.kind = "KeyUp"
    THEN set_released(state, evt.code)
    ELSE set_pressed(state, evt.code)

\* ---------------------------------------------------------------- load_image
Loads == 1..NumLoads

\* The payloads the image's error event may carry.
ErrPayloads == {"e1", "e2"}

\* A call of load_image that has not run its first statement.
\*   pc          position of the call
\*   onload      the image's onload is set to success_callback
\*   onerror     the image's onerror is set to error_callback
\*   src         set_src was called: the external load is running
\*   slot        the Mutex<Option<Sender>> the two closures share
\*   chan        what was sent on the oneshot channel
\*   closures    success_callback and error_callback are alive (they are
\*               locals of load_image, dropped when it returns)
\*   dispatched  the events the image has fired
\*   fired       the closures whose body ran, in order, with what they sent
\*   sent        the number of send calls on complete_tx
\*   result      what load_image returned
NewLoad ==
    [pc |-> "new_image", onload |-> FALSE, onerror |-> FALSE, src |-> FALSE,
     slot |-> "None", chan |-> <<"empty">>, closures |-> FALSE, dispatched |-> {},
     fired |-> <<>>, sent |-> 0, result |-> <<"pending">>]

\* ---------------------------------------------------------------------- Init
Init ==
    /\ spc = "prepare_input"
    /\ handlers = FALSE
    /\ receiver = FALSE
    /\ queue = <<>>
    /\ game = "placeholder"
    /\ last_frame = 0
    /\ accumulated_delta = 0
    /\ pressed_keys = {}
    /\ pending = 0
    /\ fpc = "idle"
    /\ perf = 0
    /\ acc_before = 0
    /\ last_before = 0
    /\ updates = 0
    /\ draws = 0
    /\ regs = 0
    /\ keys_at_drain = {}
    /\ seen = {}
    /\ n_pushed = 0
    /\ last_applied = 0
    /\ drained = <<>>
    /\ ran = {}
    /\ start_time = 0
    /\ total_updates = 0
    /\ inits = 0
    /\ used = {}
    /\ rounded_frame = FALSE
    /\ rounded_run = FALSE
    /\ loads = [l \in Loads |-> NewLoad]


\* ---------------------------------------------------------- GameLoop::start
\* start returns Err while it owns keyevent_receiver: the receiver and the
\* messages still in the channel are dropped with it.
Abort ==
    /\ spc' = "returned_err"
    /\ receiver' = FALSE
    /\ queue' = <<>>

\* StartPrepareInput that creates the channel and sets no handler.
StartPrepareInputNoHandlers ==
    /\ spc = "prepare_input"
    /\ \E ok \in BOOLEAN :
         IF ok
         THEN /\ spc' = "initialize"
              /\ receiver' = TRUE
              /\ UNCHANGED handlers
         ELSE /\ spc' = "returned_err"
              /\ UNCHANGED <<handlers, receiver>>
    /\ UNCHANGED <<queue, game, last_frame, accumulated_delta, pending, fpc,
                   perf, pressed_keys, n_pushed, last_applied>>
    /\ UNCHANGED frameHist
    /\ UNCHANGED loads
    /\ UNCHANGED runHist
    /\ UNCHANGED roundHist

\* let mut keyevent_receiver = prepare_input()?;
\* ok: both closures are set on the window and forgotten.  Not ok: one of
\* the two browser::window()? fails; the closures are dropped on return and
\* can push nothing.
StartPrepareInput ==
    /\ spc = "prepare_input"
    /\ \E ok \in BOOLEAN :
         IF ok
         THEN /\ spc' = "initialize"
              /\ handlers' = TRUE
              /\ receiver' = TRUE
         ELSE /\ spc' = "returned_err"
              /\ UNCHANGED <<handlers, receiver>>
    /\ UNCHANGED <<queue, game, last_frame, accumulated_delta, pending, fpc,
                   perf, pressed_keys, n_pushed, last_applied>>
    /\ UNCHANGED frameHist
    /\ UNCHANGED loads
    /\ UNCHANGED runHist
    /\ UNCHANGED roundHist

\* StartInitialize with the first frame requested before initialize is awaited.
StartInitializeArmed ==
    /\ spc = "initialize"
    /\ pending' = pending + 1
    /\ \E ok \in BOOLEAN :
         IF ok
         THEN /\ spc' = "now"
              /\ game' = "initialized"
              /\ UNCHANGED <<receiver, queue>>
         ELSE /\ Abort
              /\ UNCHANGED game
    /\ UNCHANGED <<handlers, last_frame, accumulated_delta, fpc,
                   perf, pressed_keys, n_pushed, last_applied>>
    /\ UNCHANGED frameHist
    /\ UNCHANGED loads
    /\ inits' = inits + 1
    /\ UNCHANGED <<start_time, total_updates, used>>
    /\ UNCHANGED roundHist

\* StartInitialize with the returned instance dropped: the loop keeps the
\* placeholder start was given.
StartInitializeDiscards ==
    /\ spc = "initialize"
    /\ \E ok \in BOOLEAN :
         IF ok
         THEN /\ spc' = "now"
              /\ UNCHANGED <<receiver, queue>>
         ELSE Abort
    /\ UNCHANGED <<handlers, game, last_frame, accumulated_delta, pending,
                   fpc, perf, pressed_keys, n_pushed, last_applied>>
    /\ UNCHANGED frameHist
    /\ UNCHANGED loads
    /\ inits' = inits + 1
    /\ UNCHANGED <<start_time, total_updates, used>>
    /\ UNCHANGED roundHist

\* let mut game = game.initialize().await?;
StartInitialize ==
    /\ spc = "initialize"
    /\ \E ok \in BOOLEAN :
         IF ok
         THEN /\ spc' = "now"
              /\ game' = "initialized"
              /\ UNCHANGED <<receiver, queue>>
         ELSE /\ Abort
              /\ UNCHANGED game
    /\ UNCHANGED <<handlers, last_frame, accumulated_delta, pending, fpc,
                   perf, pressed_keys, n_pushed, last_applied>>
    /\ UNCHANGED frameHist
    /\ UNCHANGED loads
    /\ inits' = inits + 1
    /\ UNCHANGED <<start_time, total_updates, used>>
    /\ UNCHANGED roundHist

\* Self { last_frame: browser::now()?, accumulated_delta: 0.0 }
StartNow ==
    /\ spc = "now"
    /\ \/ \E t \in 0..MaxNow :
            /\ spc' = "context"
            /\ last_frame' = t
            /\ start_time' = t
            /\ accumulated_delta' = 0
            /\ UNCHANGED <<receiver, queue>>
       \/ /\ Abort
          /\ UNCHANGED <<last_frame, start_time, accumulated_delta>>
    /\ UNCHANGED <<handlers, game, pending, fpc, perf, pressed_keys,
                   n_pushed, last_applied>>
    /\ UNCHANGED frameHist
    /\ UNCHANGED loads
    /\ UNCHANGED <<total_updates, inits, used>>
    /\ UNCHANGED roundHist

\* Renderer { context: browser::context()? }
StartContext ==
    /\ spc = "context"
    /\ \E ok \in BOOLEAN :
         IF ok
         THEN /\ spc' = "request_animation_frame"
              /\ UNCHANGED <<receiver, queue>>
         ELSE Abort
    /\ UNCHANGED <<handlers, game, last_frame, accumulated_delta, pending,
                   fpc, perf, pressed_keys, n_pushed, last_applied>>
    /\ UNCHANGED frameHist
    /\ UNCHANGED loads
    /\ UNCHANGED runHist
    /\ UNCHANGED roundHist

\* The closure is built (it takes keystate = KeyState::new(), the receiver,
\* game_loop, game and f) and handed to browser::request_animation_frame(..)?.
\* On Err start returns, but the closure keeps f and f keeps the closure: the
\* receiver it holds is never dropped and never read.
StartRequestAnimationFrame ==
    /\ spc = "request_animation_frame"
    /\ pressed_keys' = KeyState_new
    /\ \E ok \in BOOLEAN :
         IF ok
         THEN /\ spc' = "returned_ok"
              /\ pending' = pending + 1
         ELSE /\ spc' = "returned_err"
              /\ UNCHANGED pending
    /\ UNCHANGED <<handlers, receiver, queue, game, last_frame,
                   accumulated_delta, fpc, perf, n_pushed, last_applied>>
    /\ UNCHANGED frameHist
    /\ UNCHANGED loads
    /\ UNCHANGED runHist
    /\ UNCHANGED roundHist

\* ------------------------------------------------------------- key handlers
\* When an event is sent: while start awaits initialize, or at another time.
SentAt ==
    IF spc = "initialize" THEN "initialize"
    ELSE IF "frame" \notin ran THEN "before_frame"
    ELSE "other"

\* Push that also writes the key state itself.
PushApplying(kind, code) ==
    /\ handlers
    /\ receiver
    /\ n_pushed < MaxEvents
    /\ n_pushed' = n_pushed + 1
    /\ queue' = Append(queue, [kind |-> kind, code |-> code,
                               seq |-> n_pushed + 1, at |-> SentAt])
    /\ pressed_keys' = ApplyEvent(pressed_keys, [kind |-> kind, code |-> code])
    /\ UNCHANGED last_applied
    /\ UNCHANGED loopState
    /\ UNCHANGED frameHist
    /\ UNCHANGED loads
    /\ UNCHANGED runHist
    /\ UNCHANGED roundHist

\* The onkeydown / onkeyup closure of prepare_input: start_send on the shared
\* sender.  With the receiver dropped start_send returns Err, which the
\* closure ignores, and nothing changes.
Push(kind, code) ==
    /\ handlers
    /\ receiver
    /\ n_pushed < MaxEvents
    /\ n_pushed' = n_pushed + 1
    /\ queue' = Append(queue, [kind |-> kind, code |-> code,
                               seq |-> n_pushed + 1, at |-> SentAt])
    /\ UNCHANGED <<pressed_keys, last_applied>>
    /\ UNCHANGED loopState
    /\ UNCHANGED frameHist
    /\ UNCHANGED loads
    /\ UNCHANGED runHist
    /\ UNCHANGED roundHist

OnKeyDown == \E code \in Keys : Push("KeyDown", code)

OnKeyUp == \E code \in Keys : Push("KeyUp", code)


\* ---------------------------------------------------------- the frame closure
Min(a, b) == IF a < b THEN a ELSE b

\* The timestamps the scheduler may hand to the next frame.
FrameTimes == last_frame..Min(last_frame + MaxDelta, MaxTime)

\* The gap, in steps, between two frame timestamps when the host has
\* suspended the page's frames for about 6.5 days.
StallDelta == 2^26

\* The scheduler runs a registered callback with the timestamp t.
FrameAt(t) ==
    /\ fpc = "idle"
    /\ pending > 0
    /\ perf' = t
    /\ pending' = pending - 1
    /\ fpc' = "process_input"
    /\ acc_before' = accumulated_delta
    /\ last_before' = last_frame
    /\ updates' = 0
    /\ draws' = 0
    /\ regs' = 0
    /\ seen' = {}
    /\ drained' = <<>>
    /\ ran' = ran \cup {"frame"}
    /\ UNCHANGED <<spc, handlers, receiver, game, last_frame,
                   accumulated_delta, keys_at_drain>>
    /\ UNCHANGED inputState
    /\ UNCHANGED loads
    /\ UNCHANGED runHist
    /\ rounded_frame' = FALSE
    /\ UNCHANGED rounded_run

\* The next frame, with a timestamp not earlier than the previous one (for
\* the first frame: than the clock read in start).
FrameBegin == \E t \in FrameTimes : FrameAt(t)

\* The next frame, after a long suspension.
FrameBeginStalled == FrameAt(last_frame + StallDelta)

\* ProcessInputNext taking the newest message instead of the oldest.
ProcessInputNextNewest ==
    /\ fpc = "process_input"
    /\ queue # <<>>
    /\ pressed_keys' = ApplyEvent(pressed_keys, queue[Len(queue)])
    /\ last_applied' = queue[Len(queue)].seq
    /\ queue' = SubSeq(queue, 1, Len(queue) - 1)
    /\ drained' = Append(drained, queue[Len(queue)])
    /\ UNCHANGED n_pushed
    /\ UNCHANGED loopState
    /\ UNCHANGED <<acc_before, last_before, updates, draws, regs,
                   keys_at_drain, seen, ran>>
    /\ UNCHANGED loads
    /\ UNCHANGED runHist
    /\ UNCHANGED roundHist

\* process_input: try_next returned Ok(Some(evt)).
ProcessInputNext ==
    /\ fpc = "process_input"
    /\ queue # <<>>
    /\ pressed_keys' = ApplyEvent(pressed_keys, Head(queue))
    /\ last_applied' = Head(queue).seq
    /\ queue' = Tail(queue)
    /\ drained' = Append(drained, Head(queue))
    /\ UNCHANGED n_pushed
    /\ UNCHANGED loopState
    /\ UNCHANGED <<acc_before, last_before, updates, draws, regs,
                   keys_at_drain, seen, ran>>
    /\ UNCHANGED loads
    /\ UNCHANGED runHist
    /\ UNCHANGED roundHist

\* process_input: try_next returned Err (no message ready; the senders are
\* forgotten with their closures, so the channel never closes): break.
ProcessInputBreak ==
    /\ fpc = "process_input"
    /\ queue = <<>>
    /\ fpc' = "accumulate"
    /\ keys_at_drain' = pressed_keys
    /\ UNCHANGED <<spc, handlers, receiver, game, last_frame,
                   accumulated_delta, pending, perf>>
    /\ UNCHANGED inputState
    /\ UNCHANGED <<acc_before, last_before, updates, draws, regs, seen,
                   drained, ran>>
    /\ UNCHANGED loads
    /\ UNCHANGED runHist
    /\ UNCHANGED roundHist

\* Accumulate that overwrites last_frame right after adding the delta.
AccumulateSettingLast ==
    /\ fpc = "accumulate"
    /\ accumulated_delta' = F32Add(accumulated_delta, ToF32(perf - last_frame))
    /\ last_frame' = perf
    /\ fpc' = "while"
    /\ UNCHANGED <<spc, handlers, receiver, game, pending, perf>>
    /\ UNCHANGED inputState
    /\ UNCHANGED frameHist
    /\ UNCHANGED loads
    /\ UNCHANGED runHist
    /\ LET r == CastRounds(perf - last_frame)
                \/ AddRounds(accumulated_delta, ToF32(perf - last_frame))
       IN  /\ rounded_frame' = (rounded_frame \/ r)
           /\ rounded_run' = (rounded_run \/ r)

\* Accumulate with the subtraction the other way round.
AccumulateSwapped ==
    /\ fpc = "accumulate"
    /\ accumulated_delta' = F32Add(accumulated_delta, ToF32(last_frame - perf))
    /\ fpc' = "while"
    /\ UNCHANGED <<spc, handlers, receiver, game, last_frame, pending, perf>>
    /\ UNCHANGED inputState
    /\ UNCHANGED frameHist
    /\ UNCHANGED loads
    /\ UNCHANGED runHist
    /\ LET r == CastRounds(last_frame - perf)
                \/ AddRounds(accumulated_delta, ToF32(last_frame - perf))
       IN  /\ rounded_frame' = (rounded_frame \/ r)
           /\ rounded_run' = (rounded_run \/ r)

\* game_loop.accumulated_delta += (perf - game_loop.last_frame) as f32;
Accumulate ==
    /\ fpc = "accumulate"
    /\ accumulated_delta' = F32Add(accumulated_delta, ToF32(perf - last_frame))
    /\ fpc' = "while"
    /\ UNCHANGED <<spc, handlers, receiver, game, last_frame, pending, perf>>
    /\ UNCHANGED inputState
    /\ UNCHANGED frameHist
    /\ UNCHANGED loads
    /\ UNCHANGED runHist
    /\ LET r == CastRounds(perf - last_frame)
                \/ AddRounds(accumulated_delta, ToF32(perf - last_frame))
       IN  /\ rounded_frame' = (rounded_frame \/ r)
           /\ rounded_run' = (rounded_run \/ r)

\* LoopCond with >= for >.
LoopCondGe(acc) == acc >= FRAME_SIZE

\* LoopCond with the threshold one step too high.
LoopCondLate(acc) == acc > FRAME_SIZE + TimeStep

\* while game_loop.accumulated_delta > FRAME_SIZE
LoopCond(acc) == acc > FRAME_SIZE

\* Update that also draws.
UpdateDrawing ==
    /\ fpc = "while"
    /\ LoopCond(accumulated_delta)
    /\ updates < MaxUpdates
    /\ updates' = updates + 1
    /\ draws' = draws + 1
    /\ seen' = seen \cup {pressed_keys}
    /\ ran' = ran \cup {"update", "draw"}
    /\ accumulated_delta' = F32Sub(accumulated_delta, FRAME_SIZE)
    /\ UNCHANGED <<spc, handlers, receiver, game, last_frame, pending, fpc,
                   perf>>
    /\ UNCHANGED inputState
    /\ UNCHANGED <<acc_before, last_before, regs, keys_at_drain, drained>>
    /\ UNCHANGED loads
    /\ total_updates' = total_updates + 1
    /\ used' = used \cup {game}
    /\ UNCHANGED <<start_time, inits>>
    /\ LET r == SubRounds(accumulated_delta, FRAME_SIZE)
       IN  /\ rounded_frame' = (rounded_frame \/ r)
           /\ rounded_run' = (rounded_run \/ r)

\* One turn of the loop: game.update(&keystate); accumulated_delta -= FRAME_SIZE.
Update ==
    /\ fpc = "while"
    /\ LoopCond(accumulated_delta)
    /\ updates < MaxUpdates
    /\ updates' = updates + 1
    /\ seen' = seen \cup {pressed_keys}
    /\ ran' = ran \cup {"update"}
    /\ accumulated_delta' = F32Sub(accumulated_delta, FRAME_SIZE)
    /\ UNCHANGED <<spc, handlers, receiver, game, last_frame, pending, fpc,
                   perf>>
    /\ UNCHANGED inputState
    /\ UNCHANGED <<acc_before, last_before, draws, regs, keys_at_drain,
                   drained>>
    /\ UNCHANGED loads
    /\ total_updates' = total_updates + 1
    /\ used' = used \cup {game}
    /\ UNCHANGED <<start_time, inits>>
    /\ LET r == SubRounds(accumulated_delta, FRAME_SIZE)
       IN  /\ rounded_frame' = (rounded_frame \/ r)
           /\ rounded_run' = (rounded_run \/ r)

\* LoopExit that leaves last_frame as it was.
LoopExitKeepsLast ==
    /\ fpc = "while"
    /\ ~LoopCond(accumulated_delta)
    /\ fpc' = "draw"
    /\ UNCHANGED <<spc, handlers, receiver, game, last_frame,
                   accumulated_delta, pending, perf>>
    /\ UNCHANGED inputState
    /\ UNCHANGED frameHist
    /\ UNCHANGED loads
    /\ UNCHANGED runHist
    /\ UNCHANGED roundHist

\* The loop ends; game_loop.last_frame = perf.
LoopExit ==
    /\ fpc = "while"
    /\ ~LoopCond(accumulated_delta)
    /\ last_frame' = perf
    /\ fpc' = "draw"
    /\ UNCHANGED <<spc, handlers, receiver, game, accumulated_delta, pending,
                   perf>>
    /\ UNCHANGED inputState
    /\ UNCHANGED frameHist
    /\ UNCHANGED loads
    /\ UNCHANGED runHist
    /\ UNCHANGED roundHist

\* game.draw(&renderer);
Draw ==
    /\ fpc = "draw"
    /\ draws' = draws + 1
    /\ ran' = ran \cup {"draw"}
    /\ fpc' = "request_animation_frame"
    /\ UNCHANGED <<spc, handlers, receiver, game, last_frame,
                   accumulated_delta, pending, perf>>
    /\ UNCHANGED inputState
    /\ UNCHANGED <<acc_before, last_before, updates, regs, keys_at_drain,
                   seen, drained>>
    /\ UNCHANGED loads
    /\ used' = used \cup {game}
    /\ UNCHANGED <<start_time, total_updates, inits>>
    /\ UNCHANGED roundHist

\* browser::request_animation_frame(f.borrow().as_ref().unwrap()); the Result
\* is not looked at, and the closure returns.
ReRegister ==
    /\ fpc = "request_animation_frame"
    /\ \E ok \in BOOLEAN :
         IF ok
         THEN /\ pending' = pending + 1
              /\ regs' = regs + 1
         ELSE UNCHANGED <<pending, regs>>
    /\ fpc' = "idle"
    /\ UNCHANGED <<spc, handlers, receiver, game, last_frame,
                   accumulated_delta, perf>>
    /\ UNCHANGED inputState
    /\ UNCHANGED <<acc_before, last_before, updates, draws, keys_at_drain,
                   seen, drained, ran>>
    /\ UNCHANGED loads
    /\ UNCHANGED runHist
    /\ UNCHANGED roundHist

\* ------------------------------------------------------------- specification
vars == <<spc, handlers, receiver, queue, game, last_frame, accumulated_delta,
          pressed_keys, pending, fpc, perf, acc_before, last_before, updates,
          draws, regs, keys_at_drain, seen, drained, n_pushed, last_applied,
          ran, start_time, total_updates, inits, used, rounded_frame,
          rounded_run, loads>>

Next ==
    \/ StartPrepareInput
    \/ StartInitialize
    \/ StartNow
    \/ StartContext
    \/ StartRequestAnimationFrame
    \/ OnKeyDown
    \/ OnKeyUp
    \/ FrameBegin
    \/ ProcessInputNext
    \/ ProcessInputBreak
    \/ Accumulate
    \/ Update
    \/ LoopExit
    \/ Draw
    \/ ReRegister

Spec == Init /\ [][Next]_vars

NextStall ==
    \/ StartPrepareInput
    \/ StartInitialize
    \/ StartNow
    \/ StartContext
    \/ StartRequestAnimationFrame
    \/ OnKeyDown
    \/ OnKeyUp
    \/ FrameBegin
    \/ FrameBeginStalled
    \/ ProcessInputNext
    \/ ProcessInputBreak
    \/ Accumulate
    \/ Update
    \/ LoopExit
    \/ Draw
    \/ ReRegister

\* The loop, with frames that may come after a long suspension.
SpecStall == Init /\ [][NextStall]_vars

\* ------------------------------------------------------- load_image, the steps
\* let image = browser::new_image()?; the channel, the shared slot holding
\* Some(complete_tx) and the two closures are built.
LoadNewImage(l) ==
    /\ loads[l].pc = "new_image"
    /\ \E ok \in BOOLEAN :
         loads' = [loads EXCEPT ![l] =
                     IF ok
                     THEN [@ EXCEPT !.pc = "set_onload", !.slot = "Some",
                                    !.closures = TRUE]
                     ELSE [@ EXCEPT !.pc = "returned",
                                    !.result = <<"Err", "new_image">>]]

\* LoadSetOnload with set_src called right after it, before set_onerror.
LoadSetOnloadThenSrc(l) ==
    /\ loads[l].pc = "set_onload"
    /\ loads' = [loads EXCEPT ![l] = [@ EXCEPT !.pc = "set_onerror",
                                               !.onload = TRUE,
                                               !.src = TRUE]]

\* image.set_onload(Some(success_callback...));
LoadSetOnload(l) ==
    /\ loads[l].pc = "set_onload"
    /\ loads' = [loads EXCEPT ![l] = [@ EXCEPT !.pc = "set_onerror",
                                               !.onload = TRUE]]

\* image.set_onerror(Some(error_callback...));
LoadSetOnerror(l) ==
    /\ loads[l].pc = "set_onerror"
    /\ loads' = [loads EXCEPT ![l] = [@ EXCEPT !.pc = "set_src",
                                               !.onerror = TRUE]]

\* image.set_src(source);
LoadSetSrc(l) ==
    /\ loads[l].pc = "set_src"
    /\ loads' = [loads EXCEPT ![l] = [@ EXCEPT !.pc = "await", !.src = TRUE]]

\* Callback with the sender left in the slot.
CallbackNoTake(ld, who, outcome) ==
    IF ld.slot = "Some"
    THEN [ld EXCEPT !.chan = outcome, !.sent = @ + 1,
                    !.fired = Append(@, [cb |-> who, sent |-> outcome])]
    ELSE [ld EXCEPT !.fired = Append(@, [cb |-> who, sent |-> <<"nothing">>])]

\* The body of either closure: lock the slot, take the sender if it is there
\* and send the outcome on it.
Callback(ld, who, outcome) ==
    IF ld.slot = "Some"
    THEN [ld EXCEPT !.slot = "None", !.chan = outcome, !.sent = @ + 1,
                    !.fired = Append(@, [cb |-> who, sent |-> outcome])]
    ELSE [ld EXCEPT !.fired = Append(@, [cb |-> who, sent |-> <<"nothing">>])]

\* The image fires `event` once the load is running.  The closure set for it
\* runs if it is set and alive; it is a closure_once, which runs once.
Dispatch(l, event, who, outcome) ==
    /\ loads[l].src
    /\ event \notin loads[l].dispatched
    /\ LET ld == [loads[l] EXCEPT !.dispatched = @ \cup {event}]
           set == IF event = "load" THEN ld.onload ELSE ld.onerror
       IN  loads' = [loads EXCEPT ![l] =
                       IF set /\ ld.closures
                       THEN Callback(ld, who, outcome)
                       ELSE ld]

\* success_callback: sends Ok(()).
OnLoad(l) == Dispatch(l, "load", "success", <<"Ok">>)

\* error_callback: sends Err(anyhow!("Error loading image {:#?}", err)).
OnError(l) ==
    \E err \in ErrPayloads : Dispatch(l, "error", "error", <<"Err", err>>)

\* LoadResume that does not wait for a value: an empty channel reads as Ok.
LoadResumeNoWait(l) ==
    /\ loads[l].pc = "await"
    /\ loads' = [loads EXCEPT ![l] =
                   [@ EXCEPT !.pc = "returned",
                             !.result = IF loads[l].chan = <<"empty">>
                                        THEN <<"Ok">> ELSE loads[l].chan,
                             !.closures = FALSE]]

\* LoadResume with the received Result dropped: complete_rx.await?; Ok(image).
LoadResumeOneQuestionMark(l) ==
    /\ loads[l].pc = "await"
    /\ loads[l].chan # <<"empty">>
    /\ loads' = [loads EXCEPT ![l] = [@ EXCEPT !.pc = "returned",
                                               !.result = <<"Ok">>,
                                               !.closures = FALSE]]

\* LoadResume that takes a canceled channel for a success.
LoadResumeCancelOk(l) ==
    /\ loads[l].pc = "await"
    /\ loads[l].chan # <<"empty">>
    /\ loads' = [loads EXCEPT ![l] =
                   [@ EXCEPT !.pc = "returned",
                             !.result = IF loads[l].chan = <<"canceled">>
                                        THEN <<"Ok">> ELSE loads[l].chan,
                             !.closures = FALSE]]

\* complete_rx.await??; Ok(image): the receiver is woken by a value or by the
\* sender's drop.  The first `?` returns Err(Canceled) for a dropped sender,
\* the second an Err that was sent; otherwise the image is returned.  The
\* locals, the closures among them, drop.
LoadResume(l) ==
    /\ loads[l].pc = "await"
    /\ loads[l].chan # <<"empty">>
    /\ loads' = [loads EXCEPT ![l] =
                   [@ EXCEPT !.pc = "returned",
                             !.result = IF loads[l].chan = <<"canceled">>
                                        THEN <<"Err", "Canceled">>
                                        ELSE loads[l].chan,
                             !.closures = FALSE]]

\* The fault of spec 4.2: the sender is dropped with nothing sent, which
\* cancels the channel.  No statement of load_image does this while it
\* awaits; SpecLoadFault adds it to see what line 66 makes of it.
SenderDropped(l) ==
    /\ loads[l].pc = "await"
    /\ loads[l].slot = "Some"
    /\ loads' = [loads EXCEPT ![l] = [@ EXCEPT !.slot = "None",
                                               !.chan = <<"canceled">>]]

loopVars == <<spc, handlers, receiver, queue, game, last_frame,
              accumulated_delta, pressed_keys, pending, fpc, perf, acc_before,
              last_before, updates, draws, regs, keys_at_drain, seen, drained,
              n_pushed, last_applied, ran, start_time, total_updates, inits,
              used, rounded_frame, rounded_run>>

NewImage == \E l \in Loads : LoadNewImage(l) /\ UNCHANGED loopVars
SetOnload == \E l \in Loads : LoadSetOnload(l) /\ UNCHANGED loopVars
SetOnerror == \E l \in Loads : LoadSetOnerror(l) /\ UNCHANGED loopVars
SetSrc == \E l \in Loads : LoadSetSrc(l) /\ UNCHANGED loopVars
SuccessCallback == \E l \in Loads : OnLoad(l) /\ UNCHANGED loopVars
ErrorCallback == \E l \in Loads : OnError(l) /\ UNCHANGED loopVars
Resume == \E l \in Loads : LoadResume(l) /\ UNCHANGED loopVars

NextLoad ==
    \/ NewImage
    \/ SetOnload
    \/ SetOnerror
    \/ SetSrc
    \/ SuccessCallback
    \/ ErrorCallback
    \/ Resume

SpecLoad == Init /\ [][NextLoad]_vars

SenderDrop == \E l \in Loads : SenderDropped(l) /\ UNCHANGED loopVars

NextLoadFault ==
    \/ NewImage
    \/ SetOnload
    \/ SetOnerror
    \/ SetSrc
    \/ SuccessCallback
    \/ ErrorCallback
    \/ Resume
    \/ SenderDrop

\* load_image with the channel's sender liable to be dropped unsent.
SpecLoadFault == Init /\ [][NextLoadFault]_vars


\* ------------------------------------------------------------------- claims
\* The closure has left its catch-up loop (and may have returned).
LoopDone ==
    \/ fpc \in {"draw", "request_animation_frame"}
    \/ fpc = "idle" /\ "frame" \in ran

\* The closure has run and returned.
FrameDone == fpc = "idle" /\ "frame" \in ran

\* accumulated_delta before the frame plus the frame's delta.
FrameSum == Units(acc_before) + (perf - last_before) * TimeStep

\* C1 as stated: the frame's update calls number floor(FrameSum / FRAME_SIZE),
\* exact multiples of FRAME_SIZE included.
C1_Original == LoopDone => updates = FrameSum \div FRAME_SIZE

\* C1 amended: when no f32 operation of the frame has rounded, the frame's
\* update calls number floor(FrameSum / FRAME_SIZE), except that a sum which
\* is a positive exact multiple of FRAME_SIZE gets one update fewer (the loop
\* tests accumulated_delta > FRAME_SIZE, strictly).
C1_Amended ==
    LoopDone /\ ~rounded_frame =>
        updates = IF FrameSum > 0 /\ FrameSum % FRAME_SIZE = 0
                  THEN FrameSum \div FRAME_SIZE - 1
                  ELSE FrameSum \div FRAME_SIZE

\* A frame whose sum is exactly two ticks has run one update.
C1_Witness ==
    LoopDone /\ ~rounded_frame /\ FrameSum = 2 * FRAME_SIZE /\ updates = 1

\* C2 as stated: when the closure has returned, accumulated_delta is strictly
\* less than FRAME_SIZE.
C2_Original == FrameDone => accumulated_delta < FRAME_SIZE

\* C2 amended: when the closure has returned, accumulated_delta is at most
\* FRAME_SIZE (and equals it after a sum that is an exact multiple).
C2_Amended == FrameDone => accumulated_delta <= FRAME_SIZE

\* A frame has returned with several updates run and a full tick left over.
C2_Witness == FrameDone /\ accumulated_delta = FRAME_SIZE /\ updates >= 1

\* The last event for key `code` in the sequence `evts` (the sequence holds one).
RECURSIVE LastFor(_, _)
LastFor(evts, code) ==
    IF evts[Len(evts)].code = code
    THEN evts[Len(evts)]
    ELSE LastFor(SubSeq(evts, 1, Len(evts) - 1), code)

\* C4: when process_input has returned, every key that had events in the
\* drained batch is pressed exactly when the last of them was a KeyDown.
C4_LastEventWins ==
    fpc = "accumulate" =>
        \A code \in Keys :
            (\E i \in 1..Len(drained) : drained[i].code = code) =>
                (is_pressed(pressed_keys, code)
                    <=> LastFor(drained, code).kind = "KeyDown")

\* A KeyDown then a KeyUp for "A" were drained together and "A" is not pressed.
C4_Witness ==
    /\ fpc = "accumulate"
    /\ Len(drained) = 2
    /\ drained[1].kind = "KeyDown" /\ drained[1].code = "A"
    /\ drained[2].kind = "KeyUp" /\ drained[2].code = "A"
    /\ ~is_pressed(pressed_keys, "A")

\* C5, the states: no draw and no registration before the closure reaches
\* its draw; one draw and no registration when it is about to re-register; one
\* draw when it has returned.
C5_Counts ==
    /\ fpc \in {"process_input", "accumulate", "while", "draw"}
           => draws = 0 /\ regs = 0
    /\ fpc = "request_animation_frame" => draws = 1 /\ regs = 0
    /\ FrameDone => draws = 1

\* C5, the steps: a draw is made only with the loop condition false, and once
\* the frame has drawn no update follows in it.
C5_Order ==
    /\ draws' # draws /\ fpc # "idle" => ~LoopCond(accumulated_delta)
    /\ draws = 1 /\ fpc # "idle" => updates' = updates

\* C5: every call of the frame closure draws exactly once, after all of its
\* updates and before it re-registers, also when it runs no update.
C5_DrawOnce == []C5_Counts /\ [][C5_Order]_vars

\* A frame that ran no update has drawn and is about to re-register.
C5_Witness == fpc = "request_animation_frame" /\ updates = 0 /\ draws = 1

\* C6: when a frame closure has returned it has registered exactly one new
\* callback, and exactly one callback is pending.
C6_AlwaysRearmed == FrameDone => regs = 1 /\ pending = 1

\* C7, the states: no update before process_input has returned; from then to
\* the closure's return the key state is the one the drain left, and it is
\* the only one game.update was handed.
C7_SameKeys ==
    /\ fpc = "process_input" => updates = 0
    /\ fpc \in {"accumulate", "while", "draw", "request_animation_frame"}
           => pressed_keys = keys_at_drain /\ seen \subseteq {keys_at_drain}

\* C7, the steps: the key state changes only in process_input.
C7_OnlyDrainWrites == pressed_keys' # pressed_keys => fpc = "process_input"

\* C7: the drain precedes the frame's updates, all of which see the key state
\* it left; an event arriving later waits for the next frame's drain.
C7_DrainFirst == []C7_SameKeys /\ [][C7_OnlyDrainWrites]_vars

\* An update has run while a KeyDown for a key it saw released is queued.
C7_Witness ==
    /\ fpc = "while"
    /\ updates >= 1
    /\ \E i \in 1..Len(queue) :
         queue[i].kind = "KeyDown" /\ ~is_pressed(pressed_keys, queue[i].code)

\* C8, the states: while the receiver lives, the queue holds exactly the
\* events sent and not yet applied, in the order sent; the events a drain
\* applied are consecutive in that order and end with the last one applied.
C8_NothingLost ==
    /\ receiver =>
         /\ last_applied + Len(queue) = n_pushed
         /\ \A i \in 1..Len(queue) : queue[i].seq = last_applied + i
    /\ \A i \in 1..Len(drained) :
         drained[i].seq = last_applied - Len(drained) + i

\* C8, the steps: process_input returns only with the queue empty.
C8_ExitEmpty ==
    fpc = "process_input" /\ fpc' # "process_input"
        => queue = <<>> /\ queue' = <<>>

C9_NeverArmed ==
    spc = "returned_err" => pending = 0 /\ fpc = "idle" /\ ran = {}

\* start failed in its last fallible step, the first scheduler registration,
\* after initialize, the clock read and the surface acquisition succeeded.
C9_Witness ==
    spc = "returned_err" /\ game = "initialized" /\ receiver /\ pending = 0


\* ------------------------------------------------------- claims on load_image
\* C3, the states: at most one send is made for a call, and the slot is empty
\* exactly when it was made; a closure that ran second sent nothing.
C3_OneSend ==
    \A l \in Loads :
        /\ loads[l].sent <= 1
        /\ loads[l].closures => (loads[l].slot = "None" <=> loads[l].sent = 1)
        /\ \A i \in 2..Len(loads[l].fired) : loads[l].fired[i].sent = <<"nothing">>

\* C3, the steps: what was sent and what load_image returned never change.
C3_Stable ==
    \A l \in Loads :
        /\ loads[l].chan # <<"empty">> => loads'[l].chan = loads[l].chan
        /\ loads[l].result # <<"pending">> => loads'[l].result = loads[l].result

\* C3: whichever of the two callbacks fire, in whichever order, one call of
\* load_image sends at most one outcome and resolves once.
C3_ExactlyOnce == []C3_OneSend /\ [][C3_Stable]_vars

\* Both closures of a call ran and one outcome was sent.
C3_Witness ==
    \E l \in Loads :
        /\ Len(loads[l].fired) = 2
        /\ loads[l].sent = 1
        /\ loads[l].slot = "None"

\* C10: what load_image returns after its await is what the first closure to
\* run sent: the failure with its payload if that was error_callback, the
\* image if it was success_callback, whatever ran after it.
C10_FirstWins ==
    \A l \in Loads :
        loads[l].pc = "returned" /\ loads[l].src =>
            /\ loads[l].fired # <<>>
            /\ loads[l].result = loads[l].fired[1].sent
            /\ loads[l].fired[1].cb = "error"
                   => \E err \in ErrPayloads : loads[l].result = <<"Err", err>>
            /\ loads[l].fired[1].cb = "success" => loads[l].result = <<"Ok">>

\* error_callback ran first, success_callback after it, and load_image
\* returned the failure.
C10_Witness ==
    \E l \in Loads :
        /\ loads[l].pc = "returned"
        /\ Len(loads[l].fired) = 2
        /\ loads[l].fired[1].cb = "error"
        /\ loads[l].fired[2].cb = "success"
        /\ loads[l].result = <<"Err", "e1">>


\* ------------------------------------------------- claims on the accumulator
\* C11: accumulated_delta is never negative, between two updates of the
\* catch-up loop included, the frame timestamps being non-decreasing and the
\* first not earlier than the clock value start read.
C11_NonNegative == accumulated_delta >= 0

\* The loop has run one update and will run another.
C11_Witness ==
    fpc = "while" /\ updates = 1 /\ LoopCond(accumulated_delta)


\* C12 as stated: last_frame holds the frame's timestamp before the frame's
\* updates run, that is, whenever the closure is at its catch-up loop.
C12_Original == fpc = "while" => last_frame = perf

\* C12 amended, the states: up to the end of the catch-up loop last_frame is
\* still the previous frame's value; from the draw on it is this frame's.
C12_Positions ==
    /\ fpc \in {"process_input", "accumulate", "while"}
           => last_frame = last_before
    /\ fpc \in {"draw", "request_animation_frame"} \/ FrameDone
           => last_frame = perf

\* C12 amended, the steps: the closure writes last_frame only in the step
\* that leaves the catch-up loop, and writes the frame's timestamp.
C12_SingleWrite ==
    last_frame' # last_frame /\ spc = "returned_ok" =>
        /\ fpc = "while" /\ fpc' = "draw"
        /\ ~LoopCond(accumulated_delta)
        /\ last_frame' = perf

\* C12 amended: in each frame last_frame is overwritten with the frame's
\* timestamp once, after the delta is added and after the frame's updates
\* have run, before the draw.
C12_Amended == []C12_Positions /\ [][C12_SingleWrite]_vars

\* An update has run and last_frame is still the previous frame's value.
C12_Witness ==
    fpc = "while" /\ updates >= 1 /\ last_frame = last_before
        /\ last_frame # perf


\* C13: the load is triggered only with both closures set on the image, so
\* an event the image fires finds both set, and nothing is sent on the
\* channel before the load is triggered.
C13_SrcLast ==
    \A l \in Loads :
        /\ loads[l].src => loads[l].onload /\ loads[l].onerror
        /\ loads[l].dispatched # {} =>
               loads[l].src /\ loads[l].onload /\ loads[l].onerror
        /\ loads[l].chan # <<"empty">> => loads[l].src

\* A call awaits with the load triggered, and its image has fired an event
\* whose closure ran.
C13_Witness ==
    \E l \in Loads :
        /\ loads[l].pc = "await"
        /\ loads[l].src
        /\ loads[l].dispatched # {}
        /\ loads[l].fired # <<>>


\* ----------------------------------------------------- claims on the instance
\* C14, the states: initialize is called at most once, and once with success
\* before a frame callback is registered or runs; game.update and game.draw
\* only ever ran on the instance it returned.
C14_Instance ==
    /\ inits <= 1
    /\ pending > 0 \/ "frame" \in ran => inits = 1 /\ game = "initialized"
    /\ used \subseteq {"initialized"}

\* C14, the steps: the instance the loop holds changes only when initialize
\* returns it, from the placeholder.
C14_NeverReplaced ==
    game' # game =>
        spc = "initialize" /\ game = "placeholder" /\ game' = "initialized"

\* C14: start calls initialize once, before the first registration, and the
\* loop runs update and draw on the instance it returned, which stays.
C14_InitializedOnce == []C14_Instance /\ [][C14_NeverReplaced]_vars

\* An update and a draw have run, both on the initialized instance.
C14_Witness ==
    /\ inits = 1
    /\ {"update", "draw"} \subseteq ran
    /\ used = {"initialized"}


\* C15 as stated: load_image has returned nothing, success or failure, while
\* neither closure has run.
C15_Original ==
    \A l \in Loads :
        loads[l].fired = <<>> => loads[l].result = <<"pending">>

\* C15 amended: while neither closure has run nothing is in the channel and
\* load_image has not returned, except with the failure of browser::new_image,
\* returned before any closure is set and before the load is triggered.
C15_Amended ==
    \A l \in Loads :
        loads[l].fired = <<>> =>
            /\ loads[l].chan = <<"empty">>
            /\ \/ loads[l].result = <<"pending">>
               \/ /\ loads[l].result = <<"Err", "new_image">>
                  /\ ~loads[l].src /\ ~loads[l].onload /\ ~loads[l].onerror

\* A call awaits with the load triggered, no closure has run and it has not
\* returned.
C15_Witness ==
    \E l \in Loads :
        /\ loads[l].pc = "await"
        /\ loads[l].src
        /\ loads[l].fired = <<>>
        /\ loads[l].result = <<"pending">>


\* C16: with the sender dropped and nothing sent, the awaiting call can
\* resume, and when it has, load_image has returned a failure.
C16_CanceledFails ==
    \A l \in Loads :
        loads[l].chan = <<"canceled">> =>
            /\ loads[l].sent = 0
            /\ loads[l].pc = "await"
                   => ENABLED (LoadResume(l) /\ UNCHANGED loopVars)
            /\ loads[l].pc = "returned"
                   => loads[l].result = <<"Err", "Canceled">>

\* The sender was dropped unsent and load_image returned the failure.
C16_Witness ==
    \E l \in Loads :
        /\ loads[l].chan = <<"canceled">>
        /\ loads[l].pc = "returned"
        /\ loads[l].result = <<"Err", "Canceled">>


\* Real time between the clock read of start and the frame's timestamp, and
\* the time the update calls since start have simulated, in units.
Elapsed == (perf - start_time) * TimeStep
Simulated == FRAME_SIZE * total_updates

\* C17 as stated: when the closure has returned, the simulated time plus
\* accumulated_delta equals the elapsed time, so the simulated time is not
\* ahead of the elapsed time.
C17_Original ==
    FrameDone =>
        /\ Simulated + Units(accumulated_delta) = Elapsed
        /\ Simulated <= Elapsed

\* C17 amended: the same, for the runs in which no f32 operation has rounded.
C17_Amended ==
    FrameDone /\ ~rounded_run =>
        /\ Simulated + Units(accumulated_delta) = Elapsed
        /\ Simulated <= Elapsed

\* Two frames have returned in a run without rounding that started at a
\* clock value other than 0, made updates and left a remainder.
C17_Witness ==
    /\ FrameDone
    /\ ~rounded_run
    /\ start_time > 0
    /\ last_before > start_time
    /\ total_updates >= 2
    /\ accumulated_delta > 0


\* The first call of the frame closure is running and has not drawn yet.
FirstFrame == "frame" \in ran /\ "draw" \notin ran

RECURSIVE ApplyAll(_, _)
\* The key state after the events evts, applied oldest first.
ApplyAll(state, evts) ==
    IF evts = <<>> THEN state
    ELSE ApplyAll(ApplyEvent(state, Head(evts)), Tail(evts))

\* C18: the handlers are set when initialize is awaited (and from then on);
\* once the first frame's process_input has returned, every event sent before
\* the first frame has been applied, oldest first, and no update runs while
\* such an event is still queued.
C18_EarlyEvents ==
    /\ spc = "initialize" \/ inits > 0 => handlers
    /\ FirstFrame /\ fpc # "process_input" =>
           /\ \A i \in 1..Len(queue) : queue[i].at = "other"
           /\ \A i \in 1..Len(drained) : drained[i].seq = i
           /\ Len(drained) + Len(queue) = n_pushed
           /\ keys_at_drain = ApplyAll(KeyState_new, drained)
    /\ "update" \in ran => \A i \in 1..Len(queue) : queue[i].at = "other"

\* The first frame is about to test its loop for the first time, having
\* applied an event sent during initialize and one sent after it.
C18_Witness ==
    /\ FirstFrame
    /\ fpc = "while"
    /\ updates = 0
    /\ Len(drained) >= 2
    /\ drained[1].at = "initialize"
    /\ drained[2].at = "before_frame"
    /\ pressed_keys # {}


\* C19: whether a key is pressed changes only in a step of process_input
\* that takes an event for that very key from the queue, and after such a
\* step the key is pressed exactly when the event was a KeyDown.
C19_Step ==
    /\ \A code \in Keys :
           is_pressed(pressed_keys', code) # is_pressed(pressed_keys, code) =>
               /\ fpc = "process_input"
               /\ queue # <<>>
               /\ Head(queue).code = code
               /\ drained' = Append(drained, Head(queue))
    /\ drained' # drained /\ drained' # <<>> =>
           LET evt == drained'[Len(drained')]
           IN  is_pressed(pressed_keys', evt.code) <=> evt.kind = "KeyDown"

C19_KeysPersist == [][C19_Step]_vars

\* A frame that drained nothing has run an update and is about to draw with
\* key A (and only A) still pressed from the earlier frames, which applied
\* every event of the run.
C19_Witness ==
    /\ fpc = "draw"
    /\ drained = <<>>
    /\ updates >= 1
    /\ pressed_keys = {"A"}
    /\ last_applied = MaxEvents


\* C20: a turn of the catch-up loop leaves accumulated_delta smaller than it
\* found it, so that the loop ends after finitely many turns and the closure
\* goes on to draw and to register itself again.
C20_LoopProgresses ==
    fpc = "while" /\ LoopCond(accumulated_delta) =>
        F32Sub(accumulated_delta, FRAME_SIZE) < accumulated_delta

\* The turns the model follows in one closure call suffice for every frame
\* that comes without a suspension.
CapNotReached == fpc = "while" /\ LoopCond(accumulated_delta) => updates < MaxUpdates

=============================================================================
